---- MODULE Spec2Model ----
(***************************************************************************)
(* Model of resume_analysis_bot.py: CustomLLM._call (one HTTP POST and the *)
(* parsing of its reply) and run_analysis (path check, extraction,         *)
(* preview, initial analysis and the follow-up question loop).             *)
(*                                                                         *)
(* Texts are sequences of one-character strings.  The fixed parts of the   *)
(* two prompt templates and of the printed messages are single tokens.     *)
(***************************************************************************)
EXTENDS Integers, Sequences, FiniteSets, TLC

\* ---------------------------------------------------------------- bounds
\* Follow-up rounds the environment may start.
MaxRounds == 2
\* Resume texts have up to PreviewLimit + MaxExtra characters.
MaxExtra == 1

\* ------------------------------------------------------------- constants
\* resume_text[:500], len(resume_text) > 500
PreviewLimit == 500

\* ------------------------------------------------------- Python strings
Whitespace == {" ", "\n", "\t"}

LowerChar(c) ==
  CASE c = "Y" -> "y"
    [] c = "E" -> "e"
    [] c = "S" -> "s"
    [] c = "N" -> "n"
    [] c = "O" -> "o"
    [] OTHER -> c

\* str.lower()
Lower(s) == [i \in 1..Len(s) |-> LowerChar(s[i])]

RECURSIVE LStrip(_)
LStrip(s) == IF s # <<>> /\ Head(s) \in Whitespace THEN LStrip(Tail(s)) ELSE s

RECURSIVE RStrip(_)
RStrip(s) ==
  IF s # <<>> /\ s[Len(s)] \in Whitespace THEN RStrip(SubSeq(s, 1, Len(s) - 1)) ELSE s

\* str.strip()
Strip(s) == RStrip(LStrip(s))

\* s[:n]
Slice(s, n) == SubSeq(s, 1, IF Len(s) < n THEN Len(s) ELSE n)

Fill(n, c) == [i \in 1..n |-> c]

\* -------------------------------------------------------- Python values
\* A value is a record [t, v]: t its type, v its content.
PyStr(s) == [t |-> "str", v |-> s]
PyNone == [t |-> "none", v |-> <<>>]
PyList(xs) == [t |-> "list", v |-> xs]
PyDict(f) == [t |-> "dict", v |-> f]
EmptyDict == PyDict(<<>>)
\* A local variable that has not been assigned yet.
Unbound == [t |-> "unbound", v |-> <<>>]

\* The outcome of evaluating an expression: a value, or an exception raised.
Returns(x) == [ok |-> TRUE, val |-> x, exc |-> "none"]
Raises(e) == [ok |-> FALSE, val |-> PyNone, exc |-> e]

\* obj.get(key, default)
Get(r, key, default) ==
  IF ~r.ok THEN r
  ELSE IF r.val.t # "dict" THEN Raises("AttributeError")
  ELSE IF key \in DOMAIN r.val.v THEN Returns(r.val.v[key])
  ELSE Returns(default)

\* obj[0]
First(r) ==
  IF ~r.ok THEN r
  ELSE IF r.val.t = "list"
    THEN IF Len(r.val.v) = 0 THEN Raises("IndexError") ELSE Returns(r.val.v[1])
  ELSE IF r.val.t = "dict"
    THEN Raises("KeyError")
  ELSE IF r.val.t = "str"
    THEN IF Len(r.val.v) = 0 THEN Raises("IndexError") ELSE Returns(PyStr(<<r.val.v[1]>>))
  ELSE Raises("TypeError")

\* str(x), as str.format renders a value
Str(x) ==
  IF x.t = "str" THEN x.v
  ELSE IF x.t = "none" THEN <<"N", "o", "n", "e">>
  ELSE <<"<repr>">>

\* ------------------------------------------------------------ CustomLLM
model_name == <<"mistral-nemo-instruct-2407">>
SystemMessage == <<"You are a seasoned career advisor and resume expert.">>
NetworkErrorPrefix == <<"Network or request error: ">>
Sentinel == <<"No valid response.">>

\* The JSON request body of _call.
Payload(prompt) ==
  [ model |-> model_name,
    messages |-> << [role |-> "system", content |-> SystemMessage],
                    [role |-> "user", content |-> prompt] >>,
    temperature |-> "0.7",
    max_tokens |-> 1000,
    stream |-> FALSE ]

NoPayload == Payload(<<>>)

\* What the server and the network do with one POST: the exception
\* requests.post raises, or the status and the body of the response.
ContentA == <<"G", "r", "e", "a", "t">>

WellFormed(c) ==
  PyDict("choices" :> PyList(<<PyDict("message" :> PyDict("content" :> c))>>))

JsonValues ==
  { WellFormed(PyStr(ContentA)),
    PyDict("id" :> PyStr(<<"7">>)
           @@ "choices" :> PyList(<< PyDict("message" :> PyDict("role" :> PyStr(<<"a">>)
                                                             @@ "content" :> PyStr(ContentA))),
                                     PyDict("message" :> PyDict("content" :> PyStr(<<"B">>))) >>)),
    WellFormed(PyNone),
    PyDict("choices" :> PyList(<<>>)),
    PyDict("choices" :> PyNone),
    PyDict("error" :> PyStr(<<"x">>)),
    PyDict("choices" :> PyList(<<EmptyDict>>)),
    PyDict("choices" :> PyList(<<PyDict("message" :> EmptyDict)>>)),
    PyList(<<>>) }

NotJson == [parses |-> FALSE, val |-> PyNone]
Json(v) == [parses |-> TRUE, val |-> v]

Response(status, body) == [exc |-> "none", status |-> status, body |-> body]
TransportFailure(e) == [exc |-> e, status |-> 0, body |-> NotJson]

NoOutcome == [exc |-> "unbound", status |-> 0, body |-> NotJson]

HttpOutcomes ==
  { TransportFailure(e) : e \in {"ConnectionError", "Timeout"} }
    \cup { Response(200, Json(v)) : v \in JsonValues }
    \cup { Response(s, b) : s \in {200, 304}, b \in {NotJson} }
    \cup { Response(s, Json(WellFormed(PyStr(ContentA)))) : s \in {201, 304, 404, 500} }

\* str(e) of the exception caught at line 66
ExceptionText(e) ==
  CASE e = "ConnectionError" -> <<"Connection refused">>
    [] e = "Timeout" -> <<"Read timed out">>
    [] e = "HTTPError 4xx" -> <<"Client Error">>
    [] OTHER -> <<"Server Error">>

\* response.raise_for_status(): HTTPError for a status of 400 to 599
RaiseForStatus(status) ==
  IF 400 <= status /\ status < 500 THEN Raises("HTTPError 4xx")
  ELSE IF 500 <= status /\ status < 600 THEN Raises("HTTPError 5xx")
  ELSE Returns(PyNone)

\* lines 63-65: requests.post, then raise_for_status
TryPost(o) == IF o.exc # "none" THEN Raises(o.exc) ELSE RaiseForStatus(o.status)

\* response.json()
ResponseJson(body) == IF body.parses THEN Returns(body.val) ELSE Raises("JSONDecodeError")

\* line 71
ExtractContent(r) ==
  Get(Get(First(Get(r, "choices", PyList(<<EmptyDict>>))), "message", EmptyDict),
      "content", PyStr(Sentinel))

\* _call without the raise_for_status() of line 65.
CustomLLM_callNoStatusCheck(prompt, o) ==
  IF o.exc # "none"
    THEN Returns(PyStr(NetworkErrorPrefix \o ExceptionText(o.exc)))
    ELSE ExtractContent(ResponseJson(o.body))

\* CustomLLM._call: the value returned or the exception raised, given what
\* the POST met.
CustomLLM_call(prompt, o) ==
  IF ~TryPost(o).ok
    THEN Returns(PyStr(NetworkErrorPrefix \o ExceptionText(TryPost(o).exc)))
    ELSE ExtractContent(ResponseJson(o.body))

\* requests.post invocations of one _call
PostsPerCall(o) == 1

\* --------------------------------------------------------- run_analysis
Ellipsis == <<".", ".", ".">>

\* The preview with >= in place of > at line 117.
PreviewFromLimit(text) ==
  IF Len(text) >= PreviewLimit THEN Slice(text, PreviewLimit) \o Ellipsis ELSE text

\* line 117
Preview(text) ==
  IF Len(text) > PreviewLimit THEN Slice(text, PreviewLimit) \o Ellipsis ELSE text

ResumeHead == <<"You are a seasoned career advisor and resume expert. Analyze the resume provided below ... Resume:\n">>
ResumeTail == <<"\n\nPlease provide your analysis in a clear and concise manner.">>

\* The template filled with the preview instead of the text.
ResumeFormatPreview(text) == ResumeHead \o Preview(text) \o ResumeTail

\* resume_prompt.format(resume_text=...)
ResumeFormat(text) == ResumeHead \o text \o ResumeTail

FollowupHead == <<"You are a seasoned career advisor and resume expert. The following is the previous analysis of a candidate's resume:\n">>
FollowupMid == <<"\n\nNow, the candidate has a follow-up question: ">>
FollowupTail == <<"\n\nPlease provide detailed, actionable suggestions on how to improve the resume based on this question.">>

\* followup_template.format(analysis=..., question=...)
FollowupFormat(analysis, q) ==
  FollowupHead \o Str(analysis) \o FollowupMid \o Str(q) \o FollowupTail

\* user_choice not in ['yes', 'y']
Stops(choice) == choice \notin { <<"y", "e", "s">>, <<"y">> }

\* The answer read without .lower().
ReadChoiceCaseSensitive(line) == Strip(line)

\* input(...).strip().lower()
ReadChoice(line) == Lower(Strip(line))

\* input(...).strip()
ReadQuestion(line) == Strip(line)

\* The emptiness test without .strip().
IsEmptyTextNoStrip(text) == text = <<>>

\* not resume_text.strip()
IsEmptyText(text) == Strip(text) = <<>>

\* The loop without the test of line 162.
NoQuestionIgnored(q) == FALSE

\* not question
NoQuestion(q) == q = <<>>

\* Line 167 assigning feedback instead of followup_response.
FeedbackOverwritten(fb, r) == r

\* The value of feedback after a follow-up call has returned r: line 167
\* assigns followup_response, and feedback keeps its value.
FeedbackAfterFollowup(fb, r) == fb

\* The template filled with the latest response instead of feedback.
AnalysisLatest(fb, last) == IF last.t = "unbound" THEN fb ELSE last

\* The value the follow-up template receives as the analysis: the local
\* variable feedback, which only line 139 assigns.
Analysis(fb, last) == fb

\* What the environment supplies.
ResumeTexts ==
  { <<>>, <<" ", "\n">>, <<"a">>, <<" ", "a", "b", "\n">> }
    \cup { Fill(n, "a") : n \in (PreviewLimit - 1)..(PreviewLimit + MaxExtra) }
    \cup { Fill(PreviewLimit + MaxExtra - 1, "a") \o <<"b">> }

ExtractOutcomes ==
  { [raised |-> TRUE, text |-> <<>>] } \cup { [raised |-> FALSE, text |-> t] : t \in ResumeTexts }

ChoiceLines ==
  { <<"y", "e", "s">>, <<"y">>, <<" ", "Y", "E", "S", "\n">>, <<"Y">>,
    <<"n", "o">>, <<>>, <<"y", "e", "s", "s">>, <<"y", " ", "e", "s">> }

QuestionLines == { <<>>, <<" ", "\t">>, <<" ", "q", " ", "?", " ">>, <<"w">> }

VARIABLES
  pc,                 \* where run_analysis is
  path_exists,        \* what os.path.exists returned
  extraction_raised,  \* whether extract_text_from_pdf raised
  resume_text, preview, formatted_prompt, feedback,
  user_choice, question, formatted_followup, followup_response,
  exc,                \* the exception that left run_analysis, "none" if none
  printed,            \* what has been printed, in order
  posted,             \* the JSON body of the last POST
  line_read,          \* the last line input() returned
  inputs_read,        \* input() calls made by run_analysis
  llm_calls,          \* CustomLLM._call invocations
  http_posts,         \* requests.post invocations
  outcome,            \* what the last POST met
  initial_return,     \* what the first _call returned
  prior_return,       \* what the call before the last follow-up call returned
  rounds              \* follow-up rounds in the input so far: a yes/y answer
                      \* followed by a non-empty question

vars ==
  << pc, path_exists, extraction_raised, resume_text, preview, formatted_prompt,
     feedback, user_choice, question, formatted_followup, followup_response, exc,
     printed, posted, line_read, inputs_read, llm_calls, http_posts, outcome,
     initial_return, prior_return, rounds >>

locals ==
  << resume_text, preview, formatted_prompt, feedback, user_choice, question,
     formatted_followup, followup_response >>

counters == << inputs_read, llm_calls, http_posts, rounds >>

history == << outcome, initial_return, prior_return >>

\* A follow-up round of the input: the answer, then the question.
IsFollowupRound(answer, q) ==
  /\ Lower(Strip(answer)) \in { <<"y", "e", "s">>, <<"y">> }
  /\ Strip(q) # <<>>

Init ==
  /\ pc = "Start"
  /\ path_exists = FALSE
  /\ extraction_raised = FALSE
  /\ resume_text = Unbound
  /\ preview = Unbound
  /\ formatted_prompt = Unbound
  /\ feedback = Unbound
  /\ user_choice = Unbound
  /\ question = Unbound
  /\ formatted_followup = Unbound
  /\ followup_response = Unbound
  /\ exc = "none"
  /\ printed = <<>>
  /\ posted = NoPayload
  /\ line_read = <<>>
  /\ inputs_read = 0
  /\ llm_calls = 0
  /\ http_posts = 0
  /\ rounds = 0
  /\ outcome = NoOutcome
  /\ initial_return = Unbound
  /\ prior_return = Unbound

\* lines 101-103
CheckPath ==
  /\ pc = "Start"
  /\ \E e \in BOOLEAN :
       /\ path_exists' = e
       /\ IF e
            THEN pc' = "Extract" /\ printed' = printed
            ELSE pc' = "Done" /\ printed' = Append(printed, "File not found")
  /\ UNCHANGED << extraction_raised, locals, exc, posted, line_read, counters, history >>

\* lines 105-113
Extract ==
  /\ pc = "Extract"
  /\ \E x \in ExtractOutcomes :
       /\ extraction_raised' = x.raised
       /\ IF x.raised
            THEN /\ pc' = "Done"
                 /\ printed' = Append(printed, "Error extracting text from PDF")
                 /\ resume_text' = resume_text
            ELSE /\ resume_text' = PyStr(x.text)
                 /\ IF IsEmptyText(x.text)
                      THEN /\ pc' = "Done"
                           /\ printed' = Append(printed, "No text extracted from PDF.")
                      ELSE /\ pc' = "Preview"
                           /\ printed' = printed
  /\ UNCHANGED << path_exists, preview, formatted_prompt, feedback, user_choice, question,
                  formatted_followup, followup_response, exc, posted, line_read, counters,
                  history >>

\* lines 116-118
ShowPreview ==
  /\ pc = "Preview"
  /\ preview' = PyStr(Preview(resume_text.v))
  /\ printed' = printed \o <<"Extracted Resume Text Preview", "preview">>
  /\ pc' = "Analyze"
  /\ UNCHANGED << path_exists, extraction_raised, resume_text, formatted_prompt, feedback,
                  user_choice, question, formatted_followup, followup_response, exc, posted,
                  line_read, counters, history >>

\* lines 134-142
Analyze ==
  /\ pc = "Analyze"
  /\ formatted_prompt' = PyStr(ResumeFormat(resume_text.v))
  /\ \E o \in HttpOutcomes :
       LET r == CustomLLM_call(formatted_prompt', o) IN
         /\ posted' = Payload(formatted_prompt'.v)
         /\ llm_calls' = llm_calls + 1
         /\ http_posts' = http_posts + PostsPerCall(o)
         /\ outcome' = o
         /\ initial_return' = IF r.ok THEN r.val ELSE initial_return
         /\ IF r.ok
              THEN /\ feedback' = r.val
                   /\ printed' = printed \o <<"Analyzing resume", "Model Feedback", "feedback">>
                   /\ pc' = "AwaitChoice"
                   /\ exc' = exc
              ELSE /\ feedback' = feedback
                   /\ printed' = Append(printed, "Analyzing resume")
                   /\ pc' = "Crashed"
                   /\ exc' = r.exc
  /\ UNCHANGED << path_exists, extraction_raised, resume_text, preview, user_choice, question,
                  formatted_followup, followup_response, line_read, inputs_read, rounds,
                  prior_return >>

\* lines 158-160
AskChoice ==
  /\ pc = "AwaitChoice"
  /\ \E l \in ChoiceLines :
       /\ Stops(ReadChoice(l)) \/ llm_calls <= MaxRounds
       /\ line_read' = l
       /\ user_choice' = PyStr(ReadChoice(l))
       /\ pc' = IF Stops(ReadChoice(l)) THEN "Done" ELSE "AskQuestion"
  /\ inputs_read' = inputs_read + 1
  /\ UNCHANGED << path_exists, extraction_raised, resume_text, preview, formatted_prompt,
                  feedback, question, formatted_followup, followup_response, exc, printed,
                  posted, llm_calls, http_posts, rounds, history >>

\* lines 161-164
AskQuestion ==
  /\ pc = "AskQuestion"
  /\ \E l \in QuestionLines :
       /\ line_read' = l
       /\ question' = PyStr(ReadQuestion(l))
       /\ rounds' = IF IsFollowupRound(line_read, l) THEN rounds + 1 ELSE rounds
       /\ IF NoQuestion(ReadQuestion(l))
            THEN /\ printed' = Append(printed, "No question entered. Exiting follow-up.")
                 /\ pc' = "Done"
            ELSE /\ printed' = printed
                 /\ pc' = "FollowUp"
  /\ inputs_read' = inputs_read + 1
  /\ UNCHANGED << path_exists, extraction_raised, resume_text, preview, formatted_prompt,
                  feedback, user_choice, formatted_followup, followup_response, exc, posted,
                  llm_calls, http_posts, history >>

\* lines 165-169
FollowUp ==
  /\ pc = "FollowUp"
  /\ formatted_followup' = PyStr(FollowupFormat(Analysis(feedback, followup_response), question))
  /\ prior_return' = IF llm_calls = 1 THEN feedback ELSE followup_response
  /\ \E o \in HttpOutcomes :
       LET r == CustomLLM_call(formatted_followup', o) IN
         /\ posted' = Payload(formatted_followup'.v)
         /\ llm_calls' = llm_calls + 1
         /\ http_posts' = http_posts + PostsPerCall(o)
         /\ outcome' = o
         /\ IF r.ok
              THEN /\ followup_response' = r.val
                   /\ feedback' = FeedbackAfterFollowup(feedback, r.val)
                   /\ printed' = printed \o <<"Processing your follow-up question", "Follow-Up Advice", "followup_response">>
                   /\ pc' = "AwaitChoice"
                   /\ exc' = exc
              ELSE /\ followup_response' = followup_response
                   /\ feedback' = feedback
                   /\ printed' = Append(printed, "Processing your follow-up question")
                   /\ pc' = "Crashed"
                   /\ exc' = r.exc
  /\ UNCHANGED << path_exists, extraction_raised, resume_text, preview, formatted_prompt,
                  user_choice, question, line_read, inputs_read, rounds, initial_return >>

Next ==
  \/ CheckPath
  \/ Extract
  \/ ShowPreview
  \/ Analyze
  \/ AskChoice
  \/ AskQuestion
  \/ FollowUp

Spec == Init /\ [][Next]_vars

\* ---------------------------------------------------------- properties
\* The value the last completed _call returned (when none has raised).
LastReturn == IF llm_calls = 1 THEN feedback ELSE followup_response

\* The user message of the last POST.
PostedPrompt == posted.messages[2].content

\* The text of a failed call: the error string of line 67 or the sentinel.
IsNetworkError(x) == x.t = "str" /\ Len(x.v) >= 2 /\ x.v[1] = NetworkErrorPrefix[1]
IsFailureText(x) == IsNetworkError(x) \/ (x.t = "str" /\ x.v = Sentinel)

\* The part of a follow-up prompt between the template's head and the
\* introduction of the question.
EmbeddedAnalysis(f) ==
  LET k == CHOOSE i \in 1..Len(f) : f[i] = FollowupMid[1] IN SubSeq(f, 2, k - 1)

IsYes(line) == Lower(Strip(line)) \in { <<"y", "e", "s">>, <<"y">> }

\* {choices: [{message: {content: string}}]}
HasShape(j) ==
  /\ j.t = "dict"
  /\ "choices" \in DOMAIN j.v
  /\ j.v["choices"].t = "list"
  /\ Len(j.v["choices"].v) >= 1
  /\ j.v["choices"].v[1].t = "dict"
  /\ "message" \in DOMAIN j.v["choices"].v[1].v
  /\ j.v["choices"].v[1].v["message"].t = "dict"
  /\ "content" \in DOMAIN j.v["choices"].v[1].v["message"].v
  /\ j.v["choices"].v[1].v["message"].v["content"].t = "str"

FirstContent(j) == j.v["choices"].v[1].v["message"].v["content"]

C3_HaltsWithoutCall ==
  LET Halted(msg) ==
        /\ pc = "Done"
        /\ printed = <<msg>>
        /\ llm_calls = 0
        /\ http_posts = 0
        /\ posted = NoPayload
        /\ inputs_read = 0
  IN /\ (pc # "Start" /\ ~path_exists) => Halted("File not found")
     /\ extraction_raised => Halted("Error extracting text from PDF")
     /\ (resume_text.t = "str" /\ Strip(resume_text.v) = <<>>) =>
          Halted("No text extracted from PDF.")

\* C3 witness: the path did not exist and the session is over.
C3_Witness == pc = "Done" /\ ~path_exists /\ printed = <<"File not found">>

\* C4: once the analysis step is reached, a session whose input holds k
\* follow-up rounds has made k + 1 calls (k while the call of the k-th
\* round is pending), and at Done nothing is enabled, so no call follows.
C4_CallsAreRoundsPlusOne ==
  /\ pc \in {"Start", "Extract", "Preview", "Analyze"} => llm_calls = 0
  /\ pc \in {"AwaitChoice", "AskQuestion", "Crashed"} => llm_calls = rounds + 1
  /\ pc = "FollowUp" => llm_calls = rounds
  /\ pc = "Done" =>
       /\ ~ENABLED Next
       /\ llm_calls = IF preview.t = "unbound" THEN 0 ELSE rounds + 1

\* C4 witness: yes, a question, no: two calls.
C4_Witness ==
  /\ pc = "Done"
  /\ rounds = 1
  /\ llm_calls = 2
  /\ line_read = <<"n", "o">>

\* C5, as claimed: for a 2xx response with a JSON body, _call returns the
\* first choice's message content when the body has the expected shape, and
\* the sentinel, without raising, when it has not.
C5_ContentOrSentinel ==
  (/\ llm_calls >= 1
   /\ outcome.exc = "none"
   /\ outcome.status \in 200..299
   /\ outcome.body.parses) =>
    /\ exc = "none"
    /\ LastReturn = IF HasShape(outcome.body.val)
                      THEN FirstContent(outcome.body.val)
                      ELSE PyStr(Sentinel)

\* C6, as claimed (for the calls that return): for an exception of the POST
\* and for every status outside 200..299, what _call returns is the error
\* string, with one POST per call.
C6_ErrorStringForNon2xx ==
  (llm_calls >= 1 /\ exc = "none") =>
    /\ http_posts = llm_calls
    /\ (outcome.exc # "none" \/ outcome.status \notin 200..299) =>
         IsNetworkError(LastReturn)

\* C6, amended: for an exception of the POST and for every status from 400
\* to 599, _call returns the error string without raising, with one POST
\* per call.
C6_ErrorStringForErrorStatus ==
  llm_calls >= 1 =>
    /\ http_posts = llm_calls
    /\ (outcome.exc # "none" \/ outcome.status \in 400..599) =>
         (exc = "none" /\ IsNetworkError(LastReturn))

\* C6 witness: a follow-up call met a 404 and the session went on.
C6_Witness ==
  /\ pc = "AwaitChoice"
  /\ llm_calls = 2
  /\ outcome.status = 404
  /\ IsNetworkError(followup_response)

\* C7, as claimed: whatever a call meets, no exception leaves run_analysis
\* and the session goes on to the yes/no prompt.
C7_NoUncaughtException ==
  /\ exc = "none"
  /\ llm_calls >= 1 => pc \in {"AwaitChoice", "AskQuestion", "FollowUp", "Done"}

\* C8, as claimed: below 500 characters the preview is the text; from 500
\* characters on it is the first 500 characters and the ellipsis.
C8_EllipsisFromLimit ==
  preview.t = "str" =>
    preview.v = IF Len(resume_text.v) < PreviewLimit
                  THEN resume_text.v
                  ELSE SubSeq(resume_text.v, 1, PreviewLimit) \o <<".", ".", ".">>

\* C8, amended: up to and including 500 characters the preview is the
\* text; above 500 characters it is the first 500 characters and the
\* ellipsis.
C8_EllipsisAboveLimit ==
  preview.t = "str" =>
    preview.v = IF Len(resume_text.v) <= PreviewLimit
                  THEN resume_text.v
                  ELSE SubSeq(resume_text.v, 1, PreviewLimit) \o <<".", ".", ".">>

\* C8 witness: a text of exactly 500 characters, previewed whole.
C8_Witness ==
  /\ preview.t = "str"
  /\ Len(resume_text.v) = PreviewLimit
  /\ preview.v = resume_text.v

\* C9: from the yes/no prompt the session asks for a question exactly when
\* the trimmed, lower-cased answer is yes or y, and is Done otherwise; an
\* empty or whitespace-only question leads to Done; neither step makes a
\* call.
C9_ProceedsIffYes ==
  [][ /\ pc = "AwaitChoice" =>
           /\ pc' = IF IsYes(line_read') THEN "AskQuestion" ELSE "Done"
           /\ llm_calls' = llm_calls
      /\ (pc = "AskQuestion" /\ Strip(line_read') = <<>>) =>
           /\ pc' = "Done"
           /\ llm_calls' = llm_calls
      /\ (pc = "AskQuestion" /\ Strip(line_read') # <<>>) => pc' = "FollowUp" ]_vars

\* C9 witness: an upper-case, padded yes was taken as a yes.
C9_Witness == pc = "AskQuestion" /\ line_read = <<" ", "Y", "E", "S", "\n">>

\* C10: the initial prompt posted is the template's head, the whole resume
\* text and the template's tail, so that no other text gives the same
\* prompt; a follow-up prompt ends with the trimmed question and the
\* template's tail.
C10_PromptsEmbedUnaltered ==
  /\ formatted_prompt.t = "str" =>
       LET p == formatted_prompt.v
           n == Len(resume_text.v)
       IN /\ Len(p) = n + 2
          /\ p[1] = ResumeHead[1]
          /\ p[n + 2] = ResumeTail[1]
          /\ SubSeq(p, 2, n + 1) = resume_text.v
          /\ llm_calls = 1 =>
               /\ PostedPrompt = p
               /\ \A t \in ResumeTexts : t # resume_text.v => ResumeFormat(t) # p
  /\ (llm_calls >= 2 /\ pc \in {"AwaitChoice", "Crashed"}) =>
       LET f == PostedPrompt
           q == Strip(line_read)
           m == Len(f)
       IN /\ m > Len(q) + 2
          /\ f[m] = FollowupTail[1]
          /\ SubSeq(f, m - Len(q), m - 1) = q
          /\ f[m - Len(q) - 1] = FollowupMid[1]

\* C10 witness: a text longer than the preview was analysed and a padded
\* question was asked.
C10_Witness ==
  /\ llm_calls = 2
  /\ pc = "AwaitChoice"
  /\ Len(resume_text.v) > PreviewLimit
  /\ line_read = <<" ", "q", " ", "?", " ">>

====
